---- MODULE Spec2Model ----
(***************************************************************************)
(* Model of the ResolveBitvectors pass of borealis                         *)
(* (borealis/src/passes/resolve_bitvectors.rs).                            *)
(*                                                                         *)
(* The state is the AST the pass mutates in place (function bodies and the *)
(* shared type nodes), the fields of the pass object (did_change, locals,  *)
(* current_func) and the position of run() in its walk.  One action models *)
(* one step of run(): the per-function reset and seeding, the visit of one *)
(* statement by one of the handlers, and the end of a function.            *)
(***************************************************************************)
EXTENDS Integers, Sequences, FiniteSets, TLC

VARIABLES
    ast,          \* [Funcs -> [params, body]]: Ast.functions, statements mutated in place
    types,        \* [Nodes -> Type]: the Rc<RefCell<Type>> cells, shared by signature and locals
    did_change,   \* ResolveBitvectors.did_change
    locals,       \* ResolveBitvectors.locals: identifier -> type node (NoNode: not a key)
    current_func, \* ResolveBitvectors.current_func (NoFunc: None)
    pc,           \* where run() is: "idle", "ready", "walk", "done", "panic"
    idx,          \* index in the body of current_func of the next statement to visit
    pending,      \* functions the iterator of run() has not yet yielded
    result,       \* the disjunction accumulated by any() over the functions yielded so far
    returned,     \* value returned by the last completed run()
    runs,         \* number of completed calls of run()
    prev,         \* history: the last visited statement and the state just before its visit
    snap          \* history: the AST as the previous completed run() left it

vars == <<ast, types, did_change, locals, current_func, pc, idx, pending,
          result, returned, runs, prev, snap>>

----------------------------------------------------------------------------
(* Bounds of the model *)

\* longest body of the function "f"
MaxStmts == 2
\* longest bit-sequence literal
MaxBits == 2
\* how many times the driver calls run() on the same AST
MaxRuns == 2

\* width of the u128 in which ones_handler shifts
U128Bits == 128

----------------------------------------------------------------------------
(* Data model: Size, Type, Value, Statement *)

Idents == {"x", "y", "n"}
Funcs == {"f", "g"}
NoFunc == "-"

ParamSlot == [i \in Idents |-> CASE i = "x" -> 1 [] i = "y" -> 2 [] i = "n" -> 3]
NumParamSlots == Cardinality(Idents)

\* a type node is named by its owner and a slot: the parameters' nodes come
\* first, then one node per statement position (used by a TypeDeclaration)
Nodes == Funcs \X (1..(NumParamSlots + MaxStmts))
NoNode == <<NoFunc, 0>>
ParamNode(f, i) == <<f, ParamSlot[i]>>
DeclNode(f, j) == <<f, NumParamSlots + j>>

Unknown == [tag |-> "Unknown", w |-> 0, id |-> "-"]
Static(w) == [tag |-> "Static", w |-> w, id |-> "-"]
Runtime(i) == [tag |-> "Runtime", w |-> 0, id |-> i]
\* Option<Size>::None
None == [tag |-> "None", w |-> 0, id |-> "-"]

\* Type::Int { size, .. } and any other Type
IntType(size) == [int |-> TRUE, size |-> size]
OtherType == [int |-> FALSE, size |-> None]

NoValue == [k |-> "None", id |-> "-", n |-> 0, bits |-> <<>>, r |-> "-"]
\* Value::Identifier
VId(i) == [NoValue EXCEPT !.k = "Identifier", !.id = i]
\* Value::Literal(Literal::Int)
VInt(n) == [NoValue EXCEPT !.k = "Int", !.n = n]
\* Value::Literal(Literal::Bits)
VBits(b) == [NoValue EXCEPT !.k = "Bits", !.bits = b]
\* Operation::Or(Operation::LeftShift(l, Literal::Int(n)), r)
VOrShl(l, n, r) == [NoValue EXCEPT !.k = "OrShl", !.id = l, !.n = n, !.r = r]
\* Operation::Equal(l, r)
VEqual(l, r) == [NoValue EXCEPT !.k = "Equal", !.id = l, !.r = r]
\* any other value (a string literal, a struct access, ...)
VOther == [NoValue EXCEPT !.k = "Other"]

\* destination expressions: Expression::Identifier(i) is the identifier i,
\* NonIdent any other expression, NoDest the absent destination of a call
NonIdent == "*field"
NoDest == "none"

NoStmt == [op |-> "None", dest |-> NoDest, name |-> "-", val |-> NoValue,
           args |-> <<>>, node |-> NoNode]
TypeDeclaration(name, node) ==
    [NoStmt EXCEPT !.op = "TypeDeclaration", !.name = name, !.node = node]
Copy(dest, val) == [NoStmt EXCEPT !.op = "Copy", !.dest = dest, !.val = val]
FunctionCall(dest, name, args) ==
    [NoStmt EXCEPT !.op = "FunctionCall", !.dest = dest, !.name = name, !.args = args]

Builtins == {"Zeros", "Ones", "bitvector_concat", "eq_vec", "undefined_bitvector"}

----------------------------------------------------------------------------
(* Helpers of the boom crate the pass calls *)

RECURSIVE Pow2(_)
Pow2(k) == IF k = 0 THEN 1 ELSE 2 * Pow2(k - 1)

\* boom::bits_to_int: the bits read as a big-endian unsigned binary number
RECURSIVE bits_to_int(_)
bits_to_int(bits) ==
    IF bits = <<>> THEN 0
    ELSE 2 * bits_to_int(SubSeq(bits, 1, Len(bits) - 1)) + bits[Len(bits)]

\* ControlFlowBlock::get_assignment: the value most recently copied into ident
\* in the block, NoValue when no copy into ident is found
RECURSIVE get_assignment(_, _)
get_assignment(body, ident) ==
    IF body = <<>> THEN NoValue
    ELSE LET s == body[Len(body)] IN
         IF s.op = "Copy" /\ s.dest = ident THEN s.val
         ELSE get_assignment(SubSeq(body, 1, Len(body) - 1), ident)

----------------------------------------------------------------------------
(* ResolveBitvectors: sizes *)

get_size(loc, tys, name) ==
    IF loc[name] = NoNode THEN None
    ELSE IF tys[loc[name]].int THEN tys[loc[name]].size ELSE None

\* the outcome of visiting a statement: ok = FALSE is a panic; types and stmt
\* are the type nodes and the visited statement as the visit left them
Outcome(ok, tys, loc, s) == [ok |-> ok, types |-> tys, locals |-> loc, stmt |-> s]

\* set_size skipping an identifier that has no entry in the map
CanSetSizeIfBound(loc, tys, name) == loc[name] = NoNode \/ tys[loc[name]].int

\* set_size unwraps the map entry and the size of the type: both can panic
CanSetSize(loc, tys, name) == loc[name] # NoNode /\ tys[loc[name]].int

\* set_size writing to a copy of the type instead of the shared node
set_size_of_copy(loc, tys, name, size) == tys

set_size(loc, tys, name, size) ==
    [tys EXCEPT ![loc[name]] = IntType(size)]

add_type_declaration(loc, name, node) == [loc EXCEPT ![name] = node]

----------------------------------------------------------------------------
(* ResolveBitvectors::resolve_from_copy *)

\* CopyMerge without its first arm: a static destination takes the source's size
CopyMergeOverStatic(dsize, ssize) ==
    CASE (dsize.tag = "Unknown" \/ dsize.tag = "Static") /\ ssize # None -> ssize
      [] dsize.tag = "Runtime" /\ ssize.tag = "Static" -> ssize
      [] OTHER -> None

\* CopyMerge whose third arm takes any source size
CopyMergeAnySource(dsize, ssize) ==
    CASE dsize.tag = "Static" /\ ssize # None -> None
      [] dsize.tag = "Unknown" /\ ssize # None -> ssize
      [] dsize.tag = "Runtime" /\ ssize # None -> ssize
      [] OTHER -> None

\* CopyMerge without its third arm
CopyMergeNoUpgrade(dsize, ssize) ==
    CASE dsize.tag = "Static" /\ ssize # None -> None
      [] dsize.tag = "Unknown" /\ ssize # None -> ssize
      [] OTHER -> None

\* the merge of (size of destination, size of source); None: leave it alone
CopyMerge(dsize, ssize) ==
    CASE dsize.tag = "Static" /\ ssize # None -> None
      [] dsize.tag = "Unknown" /\ ssize # None -> ssize
      [] dsize.tag = "Runtime" /\ ssize.tag = "Static" -> ssize
      [] OTHER -> None

\* the literal's value taken for its length
LiteralSizeOfValue(bits) == Static(bits_to_int(bits))

\* the size a bit-sequence literal gives its destination
LiteralSize(bits) == Static(Len(bits))

\* the literal that replaces a bit-sequence literal
LiteralInt(bits) == VInt(bits_to_int(bits))

\* resolve_from_copy also giving the size of a static destination to a
\* source of unknown size
resolve_from_copy_both_ways(loc, tys, s) ==
    IF s.dest \notin Idents THEN {Outcome(TRUE, tys, loc, s)}
    ELSE CASE s.val.k = "Identifier" ->
                LET dest == get_size(loc, tys, s.dest)
                    source == get_size(loc, tys, s.val.id)
                    m == CopyMerge(dest, source)
                IN  IF m = None
                    THEN IF dest.tag = "Static" /\ source = Unknown
                         THEN {Outcome(TRUE, set_size(loc, tys, s.val.id, dest), loc, s)}
                         ELSE {Outcome(TRUE, tys, loc, s)}
                    ELSE {Outcome(TRUE, set_size(loc, tys, s.dest, m), loc, s)}
           [] s.val.k = "Bits" ->
                IF CanSetSize(loc, tys, s.dest)
                THEN {Outcome(TRUE, set_size(loc, tys, s.dest, LiteralSize(s.val.bits)),
                              loc, Copy(s.dest, LiteralInt(s.val.bits)))}
                ELSE {Outcome(FALSE, tys, loc, s)}
           [] OTHER -> {Outcome(TRUE, tys, loc, s)}

resolve_from_copy(loc, tys, s) ==
    IF s.dest \notin Idents THEN {Outcome(TRUE, tys, loc, s)}
    ELSE CASE s.val.k = "Identifier" ->
                LET m == CopyMerge(get_size(loc, tys, s.dest), get_size(loc, tys, s.val.id))
                IN  IF m = None THEN {Outcome(TRUE, tys, loc, s)}
                    ELSE {Outcome(TRUE, set_size(loc, tys, s.dest, m), loc, s)}
           [] s.val.k = "Bits" ->
                IF CanSetSize(loc, tys, s.dest)
                THEN {Outcome(TRUE, set_size(loc, tys, s.dest, LiteralSize(s.val.bits)),
                              loc, Copy(s.dest, LiteralInt(s.val.bits)))}
                ELSE {Outcome(FALSE, tys, loc, s)}
           [] OTHER -> {Outcome(TRUE, tys, loc, s)}

----------------------------------------------------------------------------
(* The five builtin handlers *)

\* a zero written as a bit-sequence literal
ZeroValueBits == VBits(<<0>>)

\* the literal Zeros and undefined_bitvector assign
ZeroValue == VInt(0)

\* zeros_handler returning, as ones_handler does, when the lookup finds nothing
zeros_handler_returns(loc, tys, body, s) ==
    IF Len(s.args) # 1 \/ s.args[1].k # "Identifier" THEN {Outcome(FALSE, tys, loc, s)}
    ELSE LET v == get_assignment(body, s.args[1].id)
             resolved == v.k = "Int" /\ s.dest \in Idents
         IN  IF v = NoValue THEN {Outcome(TRUE, tys, loc, s)}
             ELSE IF resolved /\ (v.n < 0 \/ ~CanSetSize(loc, tys, s.dest))
             THEN {Outcome(FALSE, tys, loc, s)}
             ELSE {Outcome(TRUE,
                           IF resolved THEN set_size(loc, tys, s.dest, Static(v.n)) ELSE tys,
                           loc, Copy(s.dest, ZeroValue))}

zeros_handler(loc, tys, body, s) ==
    IF Len(s.args) # 1 \/ s.args[1].k # "Identifier" THEN {Outcome(FALSE, tys, loc, s)}
    ELSE LET v == get_assignment(body, s.args[1].id)
             resolved == v.k = "Int" /\ s.dest \in Idents
         IN  IF resolved /\ (v.n < 0 \/ ~CanSetSize(loc, tys, s.dest))
             THEN {Outcome(FALSE, tys, loc, s)}
             ELSE {Outcome(TRUE,
                           IF resolved THEN set_size(loc, tys, s.dest, Static(v.n)) ELSE tys,
                           loc, Copy(s.dest, ZeroValue))}

\* (1u128 << n) - 1 for a shift amount below the width of u128
OnesValue(n) == VInt(Pow2(n) - 1)

\* the lookup of ones_handler found nothing, and that is a panic
OnesUnassignedPanics(loc, tys, s) == {Outcome(FALSE, tys, loc, s)}

\* the lookup of ones_handler found nothing: it returns
OnesUnassigned(loc, tys, s) == {Outcome(TRUE, tys, loc, s)}

ones_handler(loc, tys, body, s) ==
    IF Len(s.args) # 1 \/ s.args[1].k # "Identifier" THEN {Outcome(FALSE, tys, loc, s)}
    ELSE LET v == get_assignment(body, s.args[1].id) IN
         IF v = NoValue THEN OnesUnassigned(loc, tys, s)
         ELSE IF v.k # "Int" \/ s.dest \notin Idents \/ v.n < 0
                 \/ ~CanSetSize(loc, tys, s.dest)
         THEN {Outcome(FALSE, tys, loc, s)}
         ELSE LET sized == set_size(loc, tys, s.dest, Static(v.n)) IN
              IF v.n < U128Bits
              THEN {Outcome(TRUE, sized, loc, Copy(s.dest, OnesValue(v.n)))}
              \* the shift overflows: a build with overflow checks panics after
              \* the size is set, a build without them masks the shift amount
              ELSE {Outcome(FALSE, sized, loc, s),
                    Outcome(TRUE, sized, loc, Copy(s.dest, OnesValue(v.n % U128Bits)))}

\* (left << right_length) | right
ConcatValue(left, right, right_length) == VOrShl(left, right_length, right)

\* the size of the result of a concatenation
ConcatSize(left_length, right_length) == Static(left_length + right_length)

\* concat_handler taking an operand without a static size as empty
concat_handler_lenient(loc, tys, body, s) ==
    IF Len(s.args) # 2 \/ s.args[1].k # "Identifier" \/ s.args[2].k # "Identifier"
    THEN {Outcome(FALSE, tys, loc, s)}
    ELSE LET left == get_size(loc, tys, s.args[1].id)
             right == get_size(loc, tys, s.args[2].id)
             left_length == IF left.tag = "Static" THEN left.w ELSE 0
             right_length == IF right.tag = "Static" THEN right.w ELSE 0
         IN  IF s.dest \notin Idents \/ ~CanSetSize(loc, tys, s.dest)
             THEN {Outcome(FALSE, tys, loc, s)}
             ELSE {Outcome(TRUE,
                           set_size(loc, tys, s.dest, ConcatSize(left_length, right_length)),
                           loc,
                           Copy(s.dest, ConcatValue(s.args[1].id, s.args[2].id, right_length)))}

\* concat_handler shifting by the length of the left operand
concat_handler_left_shift(loc, tys, body, s) ==
    IF Len(s.args) # 2 \/ s.args[1].k # "Identifier" \/ s.args[2].k # "Identifier"
    THEN {Outcome(FALSE, tys, loc, s)}
    ELSE LET left == get_size(loc, tys, s.args[1].id)
             right == get_size(loc, tys, s.args[2].id)
         IN  IF left.tag # "Static" \/ right.tag # "Static" \/ s.dest \notin Idents
                \/ ~CanSetSize(loc, tys, s.dest)
             THEN {Outcome(FALSE, tys, loc, s)}
             ELSE {Outcome(TRUE, set_size(loc, tys, s.dest, ConcatSize(left.w, right.w)), loc,
                           Copy(s.dest, ConcatValue(s.args[1].id, s.args[2].id, left.w)))}

concat_handler(loc, tys, body, s) ==
    IF Len(s.args) # 2 \/ s.args[1].k # "Identifier" \/ s.args[2].k # "Identifier"
    THEN {Outcome(FALSE, tys, loc, s)}
    ELSE LET left == get_size(loc, tys, s.args[1].id)
             right == get_size(loc, tys, s.args[2].id)
         IN  IF left.tag # "Static" \/ right.tag # "Static" \/ s.dest \notin Idents
                \/ ~CanSetSize(loc, tys, s.dest)
             THEN {Outcome(FALSE, tys, loc, s)}
             ELSE {Outcome(TRUE, set_size(loc, tys, s.dest, ConcatSize(left.w, right.w)), loc,
                           Copy(s.dest, ConcatValue(s.args[1].id, s.args[2].id, right.w)))}

\* eq_handler asking for operands of static size, as concat_handler does
eq_handler_static_operands(loc, tys, body, s) ==
    IF Len(s.args) # 2 \/ s.args[1].k # "Identifier" \/ s.args[2].k # "Identifier"
       \/ s.dest \notin Idents
    THEN {Outcome(FALSE, tys, loc, s)}
    ELSE IF get_size(loc, tys, s.args[1].id).tag # "Static"
            \/ get_size(loc, tys, s.args[2].id).tag # "Static"
    THEN {Outcome(FALSE, tys, loc, s)}
    ELSE {Outcome(TRUE, tys, loc, Copy(s.dest, VEqual(s.args[1].id, s.args[2].id)))}

eq_handler(loc, tys, body, s) ==
    IF Len(s.args) # 2 \/ s.args[1].k # "Identifier" \/ s.args[2].k # "Identifier"
       \/ s.dest \notin Idents
    THEN {Outcome(FALSE, tys, loc, s)}
    ELSE {Outcome(TRUE, tys, loc, Copy(s.dest, VEqual(s.args[1].id, s.args[2].id)))}

\* undefined_handler looking at its argument before the size of dest
undefined_handler_argument_first(loc, tys, body, s) ==
    IF Len(s.args) # 1 \/ s.dest \notin Idents \/ s.args[1].k # "Identifier"
    THEN {Outcome(FALSE, tys, loc, s)}
    ELSE LET dest_size == get_size(loc, tys, s.dest) IN
         IF dest_size = None THEN {Outcome(FALSE, tys, loc, s)}
         ELSE IF dest_size = Unknown
         THEN {Outcome(TRUE, set_size(loc, tys, s.dest, Runtime(s.args[1].id)), loc,
                       Copy(s.dest, ZeroValue))}
         ELSE {Outcome(TRUE, tys, loc, Copy(s.dest, ZeroValue))}

\* undefined_handler giving the destination a runtime size whatever it was
undefined_handler_overwrites(loc, tys, body, s) ==
    IF Len(s.args) # 1 \/ s.dest \notin Idents THEN {Outcome(FALSE, tys, loc, s)}
    ELSE LET dest_size == get_size(loc, tys, s.dest) IN
         IF dest_size = None \/ s.args[1].k # "Identifier" THEN {Outcome(FALSE, tys, loc, s)}
         ELSE {Outcome(TRUE, set_size(loc, tys, s.dest, Runtime(s.args[1].id)), loc,
                       Copy(s.dest, ZeroValue))}

undefined_handler(loc, tys, body, s) ==
    IF Len(s.args) # 1 \/ s.dest \notin Idents THEN {Outcome(FALSE, tys, loc, s)}
    ELSE LET dest_size == get_size(loc, tys, s.dest) IN
         IF dest_size = None THEN {Outcome(FALSE, tys, loc, s)}
         ELSE IF dest_size = Unknown
         THEN IF s.args[1].k # "Identifier" THEN {Outcome(FALSE, tys, loc, s)}
              ELSE {Outcome(TRUE, set_size(loc, tys, s.dest, Runtime(s.args[1].id)), loc,
                            Copy(s.dest, ZeroValue))}
         ELSE {Outcome(TRUE, tys, loc, Copy(s.dest, ZeroValue))}

\* HANDLERS: the names resolve_fn dispatches on
HANDLERS == Builtins

----------------------------------------------------------------------------
(* The inputs: the ASTs the pass is run on *)

BitLits == UNION {[1..k -> {0, 1}] : k \in 0..MaxBits}

\* integer literals bound to length identifiers
LenLits == {-1, 2, U128Bits}

\* the statements the body of "f" is drawn from; a TypeDeclaration gets its
\* node from its position (Place)
DeclStmts == {TypeDeclaration("x", NoNode), TypeDeclaration("n", NoNode)}
CopyStmts ==
    {Copy("x", VId("y")), Copy("y", VId("x")), Copy("x", VId("n")),
     Copy(NonIdent, VId("y")), Copy("x", VOther), Copy(NonIdent, VBits(<<1>>)),
     Copy("y", VBits(<<1>>)), Copy("n", VOther), Copy("n", VBits(<<1, 0>>))}
    \cup {Copy("x", VBits(b)) : b \in BitLits}
    \cup {Copy("n", VInt(k)) : k \in LenLits}
CallStmts ==
    {FunctionCall(d, b, <<VId("n")>>) :
        d \in {"x", NonIdent, NoDest}, b \in {"Zeros", "Ones", "undefined_bitvector"}}
    \cup {FunctionCall("x", b, <<VInt(1)>>) :
        b \in {"Zeros", "Ones", "undefined_bitvector"}}
    \cup {FunctionCall("x", b, <<VId(l), VId("y")>>) :
        l \in Idents, b \in {"bitvector_concat", "eq_vec"}}
    \cup {FunctionCall(d, b, <<VId("y"), VId("y")>>) :
        d \in {NonIdent, NoDest}, b \in {"bitvector_concat", "eq_vec"}}
    \cup {FunctionCall("x", b, a) :
        a \in {<<VInt(1), VId("y")>>, <<VId("y"), VInt(1)>>},
        b \in {"bitvector_concat", "eq_vec"}}
    \cup {FunctionCall("x", "eq_vec", <<VId("y")>>)}
    \cup {FunctionCall("x", "zeros", <<VId("n")>>), FunctionCall(NoDest, "print", <<VOther>>)}
Universe == DeclStmts \cup CopyStmts \cup CallStmts

\* the statements that precede the last one of a body: those that bind a
\* name, give a size or bind a length identifier
LeadStmts ==
    DeclStmts
    \cup {Copy("n", VInt(k)) : k \in LenLits}
    \cup {Copy("n", VOther), Copy("n", VBits(<<1, 0>>)), Copy("y", VBits(<<1>>)),
          Copy("x", VId("y")), Copy("x", VId("n")),
          FunctionCall("x", "undefined_bitvector", <<VId("n")>>),
          FunctionCall("n", "Zeros", <<VId("y")>>)}

\* the bodies of "f": up to MaxStmts statements, any statement last
Bodies ==
    {<<>>} \cup UNION {{lead \o <<s>> : lead \in [1..(k - 1) -> LeadStmts], s \in Universe} :
                        k \in 1..MaxStmts}

\* the body of "g": at most one statement
GBodies == {<<>>, <<Copy("x", VId("n"))>>}

\* the parameters of "f": their types as the signature declares them
NoParam == [int |-> FALSE, size |-> Unknown]
Sig(x, y, n) == [i \in Idents |-> CASE i = "x" -> x [] i = "y" -> y [] i = "n" -> n]
Sigs ==
    {Sig(IntType(Unknown), IntType(Unknown), IntType(Unknown)),
     Sig(IntType(Static(1)), IntType(Static(2)), NoParam),
     Sig(IntType(Runtime("n")), IntType(Static(2)), IntType(Unknown)),
     Sig(OtherType, IntType(Runtime("n")), NoParam)}
GSig == Sig(IntType(Unknown), NoParam, NoParam)

Place(f, body) ==
    [j \in 1..Len(body) |->
        IF body[j].op = "TypeDeclaration"
        THEN [body[j] EXCEPT !.node = DeclNode(f, j)] ELSE body[j]]

Params(sig) == {i \in Idents : sig[i] # NoParam}

\* the types the TypeDeclarations of a body declare
DeclTypes == {IntType(Unknown), IntType(Static(3)), OtherType}

\* the type cells of a function: its parameters' as the signature declares
\* them, a TypeDeclaration's as it declares it (decl); a cell nothing refers
\* to holds OtherType
InitType(sig, body, decl, node) ==
    IF \E i \in Idents : ParamSlot[i] = node[2] THEN
        sig[CHOOSE i \in Idents : ParamSlot[i] = node[2]]
    ELSE IF node[2] - NumParamSlots <= Len(body)
            /\ body[node[2] - NumParamSlots].op = "TypeDeclaration"
    THEN decl
    ELSE OtherType

Init ==
    \E sf \in Sigs, bf \in Bodies, bg \in GBodies, dt \in DeclTypes :
        /\ ast = [f \in Funcs |->
                    IF f = "f" THEN [params |-> Params(sf), body |-> Place(f, bf)]
                    ELSE [params |-> Params(GSig), body |-> Place(f, bg)]]
        /\ types = [nd \in Nodes |->
                        IF nd[1] = "f" THEN InitType(sf, bf, dt, nd)
                        ELSE InitType(GSig, bg, dt, nd)]
        /\ did_change = FALSE
        /\ locals = [i \in Idents |-> NoNode]
        /\ current_func = NoFunc
        /\ pc = "idle"
        /\ idx = 0
        /\ pending = {}
        /\ result = FALSE
        /\ returned = FALSE
        /\ runs = 0
        /\ prev = [valid |-> FALSE, f |-> NoFunc, i |-> 0, stmt |-> NoStmt,
                    types |-> types, locals |-> locals]
        /\ snap = [ast |-> ast, types |-> types]

----------------------------------------------------------------------------
(* ResolveBitvectors::run and the Visitor *)

\* the driver calls run(ast), the first time or again on the AST it left
BeginRun ==
    /\ \/ pc = "idle"
       \/ pc = "done" /\ runs < MaxRuns
    /\ pc' = "ready"
    /\ pending' = Funcs
    /\ result' = FALSE
    /\ snap' = [ast |-> ast, types |-> types]
    /\ UNCHANGED <<ast, types, did_change, locals, current_func, idx, returned, runs, prev>>

\* the parameters run() seeds locals with: those whose type is Type::Int
SeedParams(f) == {i \in ast[f].params : types[ParamNode(f, i)].int}

\* run() seeding the parameters without clearing the map first
BeginFunctionKeepsLocals(f) ==
    /\ pc = "ready"
    /\ f \in pending
    /\ did_change' = FALSE
    /\ locals' = [i \in Idents |-> IF i \in SeedParams(f) THEN ParamNode(f, i) ELSE locals[i]]
    /\ current_func' = f
    /\ idx' = 1
    /\ pc' = "walk"
    /\ UNCHANGED <<ast, types, pending, result, returned, runs, prev, snap>>

\* the iterator yields the next function: reset(), seed locals from the
\* parameters, visit_function_definition sets current_func and starts the walk
BeginFunction(f) ==
    /\ pc = "ready"
    /\ f \in pending
    /\ did_change' = FALSE
    /\ locals' = [i \in Idents |-> IF i \in SeedParams(f) THEN ParamNode(f, i) ELSE NoNode]
    /\ current_func' = f
    /\ idx' = 1
    /\ pc' = "walk"
    /\ UNCHANGED <<ast, types, pending, result, returned, runs, prev, snap>>

Body == ast[current_func].body
Visiting == pc = "walk" /\ idx <= Len(Body)
Stmt == Body[idx]

\* the visit of the statement at idx ends with outcome o
Visited(o) ==
    /\ ast' = [ast EXCEPT ![current_func].body[idx] = o.stmt]
    /\ types' = o.types
    /\ locals' = o.locals
    /\ pc' = IF o.ok THEN "walk" ELSE "panic"
    /\ idx' = IF o.ok THEN idx + 1 ELSE idx
    /\ prev' = [valid |-> TRUE, f |-> current_func, i |-> idx, stmt |-> Stmt,
                types |-> types, locals |-> locals]
    /\ UNCHANGED <<did_change, current_func, pending, result, returned, runs, snap>>

VisitTypeDeclaration ==
    /\ Visiting
    /\ Stmt.op = "TypeDeclaration"
    /\ Visited(Outcome(TRUE, types, add_type_declaration(locals, Stmt.name, Stmt.node), Stmt))

VisitCopy ==
    /\ Visiting
    /\ Stmt.op = "Copy"
    /\ \E o \in resolve_from_copy(locals, types, Stmt) : Visited(o)

\* resolve_fn: a call with a destination; its handler, if the name has one
IsCall(name) == Stmt.op = "FunctionCall" /\ Stmt.dest # NoDest /\ Stmt.name = name

VisitZeros ==
    /\ Visiting
    /\ IsCall("Zeros")
    /\ \E o \in zeros_handler(locals, types, Body, Stmt) : Visited(o)

VisitOnes ==
    /\ Visiting
    /\ IsCall("Ones")
    /\ \E o \in ones_handler(locals, types, Body, Stmt) : Visited(o)

VisitConcat ==
    /\ Visiting
    /\ IsCall("bitvector_concat")
    /\ \E o \in concat_handler(locals, types, Body, Stmt) : Visited(o)

VisitEq ==
    /\ Visiting
    /\ IsCall("eq_vec")
    /\ \E o \in eq_handler(locals, types, Body, Stmt) : Visited(o)

VisitUndefined ==
    /\ Visiting
    /\ IsCall("undefined_bitvector")
    /\ \E o \in undefined_handler(locals, types, Body, Stmt) : Visited(o)

\* resolve_fn matching the name of a handler without regard to case
VisitUnhandledCallFoldsCase ==
    /\ Visiting
    /\ Stmt.op = "FunctionCall" /\ Stmt.dest # NoDest /\ Stmt.name \notin HANDLERS
    /\ \E o \in (IF Stmt.name = "zeros"
                 THEN zeros_handler(locals, types, Body, Stmt)
                 ELSE {Outcome(TRUE, types, locals, Stmt)}) : Visited(o)

\* resolve_fn finds no handler for the name
VisitUnhandledCall ==
    /\ Visiting
    /\ Stmt.op = "FunctionCall" /\ Stmt.dest # NoDest /\ Stmt.name \notin HANDLERS
    /\ Visited(Outcome(TRUE, types, locals, Stmt))

\* visit_statement handing a Zeros call to its handler also when the call
\* has no destination
VisitIgnoredResolvesZeros ==
    /\ Visiting
    /\ Stmt.op = "FunctionCall" /\ Stmt.dest = NoDest
    /\ \E o \in (IF Stmt.name = "Zeros"
                 THEN zeros_handler(locals, types, Body, Stmt)
                 ELSE {Outcome(TRUE, types, locals, Stmt)}) : Visited(o)

\* the last arm of visit_statement: a call without a destination
VisitIgnored ==
    /\ Visiting
    /\ Stmt.op = "FunctionCall" /\ Stmt.dest = NoDest
    /\ Visited(Outcome(TRUE, types, locals, Stmt))

\* the walk of current_func is over: its did_change joins the result of
\* any(); after the last function run() returns
EndFunction ==
    /\ pc = "walk"
    /\ idx > Len(Body)
    /\ result' = (result \/ did_change)
    /\ pending' = pending \ {current_func}
    /\ IF pending' = {}
       THEN /\ pc' = "done"
            /\ returned' = result'
            /\ runs' = runs + 1
       ELSE /\ pc' = "ready"
            /\ UNCHANGED <<returned, runs>>
    /\ UNCHANGED <<ast, types, did_change, locals, current_func, idx, prev, snap>>

Next ==
    \/ BeginRun
    \/ \E f \in Funcs : BeginFunction(f)
    \/ VisitTypeDeclaration
    \/ VisitCopy
    \/ VisitZeros
    \/ VisitOnes
    \/ VisitConcat
    \/ VisitEq
    \/ VisitUndefined
    \/ VisitUnhandledCall
    \/ VisitIgnored
    \/ EndFunction

Spec == Init /\ [][Next]_vars

----------------------------------------------------------------------------
(* Properties *)

\* the statement last visited, as it is now, and the body it was visited in
NowStmt == ast[prev.f].body[prev.i]
PrevBody == [ast[prev.f].body EXCEPT ![prev.i] = prev.stmt]
SizeBefore(i) == get_size(prev.locals, prev.types, i)
SizeAfter(i) == get_size(prev.locals, types, i)
Tracked(i) == i \in Idents /\ SizeBefore(i) # None
IsStatic(ty) == ty.int /\ ty.size.tag = "Static"
Rank(size) == CASE size.tag = "Unknown" -> 0 [] size.tag = "Runtime" -> 1
                [] size.tag = "Static" -> 2 [] OTHER -> 0 - 1
Positions(a) == {p \in Funcs \X (1..MaxStmts) : p[2] <= Len(a[p[1]].body)}
StmtAt(a, p) == a[p[1]].body[p[2]]
IsBuiltinCall(s) == s.op = "FunctionCall" /\ s.name \in Builtins

\* a statement that was a builtin call with a destination when this run
\* began is no longer that statement
RewrittenThisRun ==
    \E p \in Positions(snap.ast) :
        /\ IsBuiltinCall(StmtAt(snap.ast, p))
        /\ StmtAt(snap.ast, p).dest # NoDest
        /\ StmtAt(ast, p) # StmtAt(snap.ast, p)

\* C1: run() returns true exactly when a builtin handler rewrote a statement
\* during the run.
C1_RunReportsRewrite == pc = "done" => (returned <=> RewrittenThisRun)

\* C2 (as stated): a type node whose size is Static(w) is never changed by a
\* later statement, not even to another static width.
C2_StaticNeverChanges ==
    prev.valid => \A nd \in Nodes : IsStatic(prev.types[nd]) => types[nd] = prev.types[nd]

\* the statements that write a static width whatever the destination holds
WritesWidth(s) ==
    \/ s.op = "Copy" /\ s.val.k = "Bits"
    \/ s.op = "FunctionCall" /\ s.name \in {"Zeros", "Ones", "bitvector_concat"}

\* C2 (amended): a type node whose size is Static stays Static; its width is
\* changed only by a bit-literal copy, Zeros, Ones or bitvector_concat into
\* the identifier bound to it, never by a copy from an identifier, eq_vec or
\* undefined_bitvector.
C2_StaticStaysStatic ==
    prev.valid =>
        \A nd \in Nodes :
            IsStatic(prev.types[nd]) =>
                /\ IsStatic(types[nd])
                /\ types[nd] # prev.types[nd] =>
                      /\ WritesWidth(prev.stmt)
                      /\ prev.stmt.dest \in Idents
                      /\ prev.locals[prev.stmt.dest] = nd

C2_StaticOverwritten ==
    /\ prev.valid
    /\ \E nd \in Nodes :
          /\ IsStatic(prev.types[nd]) /\ IsStatic(types[nd])
          /\ types[nd].size.w # prev.types[nd].size.w

\* C3: the visit of a statement moves the size of a type node (so of the
\* identifier bound to it) only upward, Unknown -> Runtime, Unknown -> Static
\* or Runtime -> Static: never Static -> Runtime or Unknown, never
\* Runtime -> Unknown, never one Runtime to another.
C3_SizeMovesUp ==
    prev.valid =>
        \A nd \in Nodes :
            LET a == prev.types[nd]
                b == types[nd]
            IN  /\ a.int = b.int
                /\ a.int =>
                      /\ Rank(b.size) >= Rank(a.size)
                      /\ Rank(b.size) = Rank(a.size) /\ Rank(a.size) < 2 => b = a

C3_RuntimeBecameStatic ==
    /\ prev.valid
    /\ \E i \in Idents :
          /\ SizeBefore(i).tag = "Runtime"
          /\ SizeAfter(i).tag = "Static"

NoBuiltinCalls(a) == \A p \in Positions(a) : ~IsBuiltinCall(StmtAt(a, p))
SecondRunDone == pc = "done" /\ runs >= 2 /\ NoBuiltinCalls(snap.ast)

\* C4 (as stated): a run on the output of a run that left no builtin call
\* returns false and changes no statement and no size.
C4_SecondRunChangesNothing ==
    SecondRunDone => returned = FALSE /\ ast = snap.ast /\ types = snap.types

\* C4 (amended): a run on the output of a run that left no builtin call
\* returns false and changes no statement; a size it changes was not Static
\* and has moved up (the copy a <- b that precedes the statement resolving b
\* gives a the size of b in the second run).
C4_SecondRunKeepsStatements ==
    SecondRunDone =>
        /\ returned = FALSE
        /\ ast = snap.ast
        /\ \A nd \in Nodes :
              types[nd] # snap.types[nd] =>
                  /\ snap.types[nd].int /\ types[nd].int
                  /\ Rank(types[nd].size) > Rank(snap.types[nd].size)

C4_SecondRunRefinedSize ==
    /\ SecondRunDone
    /\ \E nd \in Nodes : snap.types[nd].size = Unknown /\ IsStatic(types[nd])

\* C5: a copy into an identifier from an identifier follows the merge table;
\* a copy with another destination, or whose value is neither an identifier
\* nor a bit-sequence literal, changes no size.
C5_CopyMergeTable ==
    prev.valid /\ prev.stmt.op = "Copy" =>
        LET dest == prev.stmt.dest
            val == prev.stmt.val
            d == SizeBefore(dest)
            s == SizeBefore(val.id)
        IN  /\ dest \in Idents /\ val.k = "Identifier" =>
                  /\ pc # "panic"
                  /\ NowStmt = prev.stmt
                  /\ d.tag = "Static" => types = prev.types
                  /\ s = None => types = prev.types
                  /\ d.tag = "Unknown" /\ s # None => SizeAfter(dest) = s
                  /\ d.tag = "Runtime" /\ s.tag = "Static" => SizeAfter(dest) = s
                  /\ \A nd \in Nodes : nd # prev.locals[dest] => types[nd] = prev.types[nd]
            /\ dest \notin Idents \/ val.k \notin {"Identifier", "Bits"} =>
                  /\ pc # "panic"
                  /\ NowStmt = prev.stmt
                  /\ types = prev.types

C5_RuntimeTookStatic ==
    /\ prev.valid /\ prev.stmt.op = "Copy"
    /\ prev.stmt.dest \in Idents /\ prev.stmt.val.k = "Identifier"
    /\ SizeBefore(prev.stmt.dest).tag = "Runtime"
    /\ SizeBefore(prev.stmt.val.id).tag = "Static"
    /\ SizeAfter(prev.stmt.dest) = SizeBefore(prev.stmt.val.id)

\* the unsigned number the bits encode: bit i of L counts 2^(L - i)
RECURSIVE UnsignedFrom(_, _)
UnsignedFrom(bits, i) ==
    IF i > Len(bits) THEN 0
    ELSE bits[i] * Pow2(Len(bits) - i) + UnsignedFrom(bits, i + 1)

\* C6: a copy of a bit-sequence literal of length L into a tracked
\* identifier, whatever its size was, replaces the literal by the integer
\* literal the bits encode and leaves the destination's size Static(L).
C6_BitLiteralResolved ==
    prev.valid /\ prev.stmt.op = "Copy" /\ prev.stmt.val.k = "Bits"
               /\ Tracked(prev.stmt.dest) =>
        /\ pc # "panic"
        /\ NowStmt = Copy(prev.stmt.dest, VInt(UnsignedFrom(prev.stmt.val.bits, 1)))
        /\ SizeAfter(prev.stmt.dest) = Static(Len(prev.stmt.val.bits))

C6_StaticOverwrittenByLiteral ==
    /\ prev.valid /\ prev.stmt.op = "Copy" /\ prev.stmt.val = VBits(<<1, 0>>)
    /\ Tracked(prev.stmt.dest)
    /\ SizeBefore(prev.stmt.dest) = Static(1)
    /\ NowStmt.val = VInt(2)
    /\ SizeAfter(prev.stmt.dest) = Static(2)

\* the last visited statement was the call dest = name(length_id)
VisitedLengthCall(name) ==
    /\ prev.valid
    /\ prev.stmt.op = "FunctionCall" /\ prev.stmt.name = name
    /\ prev.stmt.dest # NoDest
    /\ Len(prev.stmt.args) = 1 /\ prev.stmt.args[1].k = "Identifier"
\* what the entry-block lookup of its argument found
Looked == get_assignment(PrevBody, prev.stmt.args[1].id)
OthersUnchanged(dest) ==
    \A nd \in Nodes : nd # prev.locals[dest] => types[nd] = prev.types[nd]

\* C7: dest = Zeros(length_id) is rewritten to Copy(dest, 0) whether or not
\* the lookup of length_id yields an integer literal; if it yields n the
\* size of the (tracked) destination becomes Static(n), if it does not every
\* size is left as it was.
C7_ZerosRewritten ==
    VisitedLengthCall("Zeros") =>
        /\ Looked.k # "Int" =>
              /\ pc # "panic"
              /\ NowStmt = Copy(prev.stmt.dest, VInt(0))
              /\ types = prev.types
        /\ Looked.k = "Int" /\ Looked.n >= 0 /\ Tracked(prev.stmt.dest) =>
              /\ pc # "panic"
              /\ NowStmt = Copy(prev.stmt.dest, VInt(0))
              /\ SizeAfter(prev.stmt.dest) = Static(Looked.n)
              /\ OthersUnchanged(prev.stmt.dest)

C7_ZerosUnresolved ==
    /\ VisitedLengthCall("Zeros")
    /\ Looked = NoValue
    /\ Tracked(prev.stmt.dest)
    /\ NowStmt = Copy(prev.stmt.dest, VInt(0))
    /\ SizeAfter(prev.stmt.dest) = SizeBefore(prev.stmt.dest)

RECURSIVE BitLength(_)
BitLength(v) == IF v <= 0 THEN 0 ELSE 1 + BitLength(v \div 2)
\* v = 2^n - 1: v has n bits and all of them are ones
IsAllOnes(v, n) == BitLength(v) = n /\ v = Pow2(BitLength(v)) - 1

\* C8: dest = Ones(length_id) whose length_id resolves to the integer
\* literal n >= 0 is rewritten to Copy(dest, 2^n - 1) and sets the size of
\* dest to Static(n), for every n.
C8_OnesAllOnes ==
    VisitedLengthCall("Ones") /\ Looked.k = "Int" /\ Looked.n >= 0
                              /\ Tracked(prev.stmt.dest) =>
        /\ pc # "panic"
        /\ NowStmt.op = "Copy" /\ NowStmt.dest = prev.stmt.dest
        /\ NowStmt.val.k = "Int" /\ IsAllOnes(NowStmt.val.n, Looked.n)
        /\ SizeAfter(prev.stmt.dest) = Static(Looked.n)

C10_ConcatRewritten ==
    /\ prev.valid
    /\ prev.stmt.op = "FunctionCall" /\ prev.stmt.name = "bitvector_concat"
    /\ prev.stmt.dest # NoDest
    /\ Len(prev.stmt.args) = 2
    /\ prev.stmt.args[1].k = "Identifier" /\ prev.stmt.args[2].k = "Identifier"
    /\ SizeBefore(prev.stmt.args[1].id).tag = "Static"
    /\ SizeBefore(prev.stmt.args[2].id).tag = "Static"
    /\ Tracked(prev.stmt.dest)
    =>
        LET left == prev.stmt.args[1].id
            right == prev.stmt.args[2].id
            a == SizeBefore(left).w
            b == SizeBefore(right).w
        IN  /\ pc # "panic"
            /\ NowStmt = Copy(prev.stmt.dest, VOrShl(left, b, right))
            /\ SizeAfter(prev.stmt.dest) = Static(a + b)

C10_ConcatOneAndTwo ==
    /\ prev.valid
    /\ prev.stmt = FunctionCall("x", "bitvector_concat", <<VId("x"), VId("y")>>)
    /\ SizeBefore("x") = Static(1) /\ SizeBefore("y") = Static(2)
    /\ NowStmt = Copy("x", VOrShl("x", 2, "y"))
    /\ SizeAfter("x") = Static(3)

\* C11: dest = bitvector_concat(left, right) where the size of left or of
\* right is not Static (Unknown, Runtime or untracked) aborts the pass; at
\* the abort the statement is not rewritten and no size has changed.
VisitedConcat ==
    /\ prev.valid
    /\ prev.stmt.op = "FunctionCall" /\ prev.stmt.name = "bitvector_concat"
    /\ prev.stmt.dest # NoDest
    /\ Len(prev.stmt.args) = 2
    /\ prev.stmt.args[1].k = "Identifier" /\ prev.stmt.args[2].k = "Identifier"

Aborted == pc = "panic" /\ NowStmt = prev.stmt /\ types = prev.types

C11_ConcatNonStaticAborts ==
    /\ VisitedConcat
    /\ \/ SizeBefore(prev.stmt.args[1].id).tag # "Static"
       \/ SizeBefore(prev.stmt.args[2].id).tag # "Static"
    => Aborted

C11_ConcatRuntimeRight ==
    /\ VisitedConcat
    /\ Tracked(prev.stmt.dest)
    /\ SizeBefore(prev.stmt.args[1].id).tag = "Static"
    /\ SizeBefore(prev.stmt.args[2].id).tag = "Runtime"
    /\ Aborted

\* C12: dest = undefined_bitvector(size_id) with dest a tracked identifier
\* is always rewritten to Copy(dest, 0); the size of dest becomes
\* Runtime(size_id) if it was Unknown before and is left unchanged otherwise,
\* and no other type node changes.
C12_UndefinedRewritten ==
    /\ VisitedLengthCall("undefined_bitvector")
    /\ Tracked(prev.stmt.dest)
    =>
        /\ pc # "panic"
        /\ NowStmt = Copy(prev.stmt.dest, VInt(0))
        /\ SizeAfter(prev.stmt.dest) =
               IF SizeBefore(prev.stmt.dest) = Unknown
               THEN Runtime(prev.stmt.args[1].id)
               ELSE SizeBefore(prev.stmt.dest)
        /\ OthersUnchanged(prev.stmt.dest)

C12_UndefinedKeepsStatic ==
    /\ VisitedLengthCall("undefined_bitvector")
    /\ SizeBefore(prev.stmt.dest).tag = "Static"
    /\ SizeAfter(prev.stmt.dest) = SizeBefore(prev.stmt.dest)
    /\ NowStmt = Copy(prev.stmt.dest, VInt(0))

\* C13: dest = eq_vec(left, right) with identifier arguments and an
\* identifier destination is rewritten to Copy(dest, Equal(left, right))
\* whatever the sizes of left, right and dest are (Unknown, Runtime, Static or
\* untracked), and changes no size.
VisitedEq ==
    /\ prev.valid
    /\ prev.stmt.op = "FunctionCall" /\ prev.stmt.name = "eq_vec"
    /\ prev.stmt.dest \in Idents
    /\ Len(prev.stmt.args) = 2
    /\ prev.stmt.args[1].k = "Identifier" /\ prev.stmt.args[2].k = "Identifier"

C13_EqRewritten ==
    VisitedEq =>
        /\ pc # "panic"
        /\ NowStmt = Copy(prev.stmt.dest,
                          VEqual(prev.stmt.args[1].id, prev.stmt.args[2].id))
        /\ types = prev.types

C13_EqOfUntracked ==
    /\ VisitedEq
    /\ SizeBefore(prev.stmt.dest) = None
    /\ SizeBefore(prev.stmt.args[1].id) = None
    /\ SizeBefore(prev.stmt.args[2].id).tag = "Runtime"
    /\ NowStmt = Copy(prev.stmt.dest,
                      VEqual(prev.stmt.args[1].id, prev.stmt.args[2].id))

VisitedBadArgument ==
    /\ prev.valid
    /\ prev.stmt.op = "FunctionCall" /\ prev.stmt.dest # NoDest
    /\ \/ /\ prev.stmt.name \in {"Zeros", "Ones", "undefined_bitvector"}
          /\ Len(prev.stmt.args) = 1
       \/ /\ prev.stmt.name \in {"bitvector_concat", "eq_vec"}
          /\ Len(prev.stmt.args) = 2
    /\ \E j \in 1..Len(prev.stmt.args) : prev.stmt.args[j].k # "Identifier"

\* C15 as stated: for each of the five builtins, a call with a destination
\* and an argument that is not an identifier aborts the pass and is not
\* rewritten, for undefined_bitvector whatever the size of dest is.
C15_BadArgumentAborts == VisitedBadArgument => Aborted

\* C15, amended: such a call aborts the pass and is not rewritten, except
\* that undefined_bitvector with a tracked dest whose size is already Static
\* or Runtime does not look at its argument: it is rewritten to Copy(dest, 0)
\* and changes no size.
ArgumentUnread ==
    /\ prev.stmt.name = "undefined_bitvector"
    /\ Tracked(prev.stmt.dest)
    /\ SizeBefore(prev.stmt.dest) # Unknown

C15_BadArgumentAbortsWhenRead ==
    VisitedBadArgument =>
        IF ArgumentUnread
        THEN /\ pc # "panic"
             /\ NowStmt = Copy(prev.stmt.dest, VInt(0))
             /\ types = prev.types
        ELSE Aborted

C15_UndefinedOfLiteralRewritten ==
    /\ VisitedBadArgument
    /\ prev.stmt = FunctionCall("x", "undefined_bitvector", <<VInt(1)>>)
    /\ SizeBefore("x").tag = "Static"
    /\ NowStmt = Copy("x", VInt(0))
    /\ pc = "done"

\* C16: a statement that would write a size for a destination identifier
\* that is absent from the environment (a copy of a bit literal, Zeros or
\* Ones whose length resolved, bitvector_concat of static operands,
\* undefined_bitvector) aborts the pass; at the abort the statement and its
\* literal are not rewritten and no size has changed.
WritesSizeFor(s) ==
    \/ s.op = "Copy" /\ s.val.k = "Bits"
    \/ /\ s.op = "FunctionCall" /\ s.name \in {"Zeros", "Ones"}
       /\ Len(s.args) = 1 /\ s.args[1].k = "Identifier"
       /\ get_assignment(PrevBody, s.args[1].id).k = "Int"
    \/ /\ s.op = "FunctionCall" /\ s.name = "bitvector_concat"
       /\ Len(s.args) = 2
       /\ s.args[1].k = "Identifier" /\ s.args[2].k = "Identifier"
       /\ SizeBefore(s.args[1].id).tag = "Static"
       /\ SizeBefore(s.args[2].id).tag = "Static"
    \/ /\ s.op = "FunctionCall" /\ s.name = "undefined_bitvector"
       /\ Len(s.args) = 1

VisitedAbsentDest ==
    /\ prev.valid
    /\ prev.stmt.dest \in Idents
    /\ prev.locals[prev.stmt.dest] = NoNode
    /\ WritesSizeFor(prev.stmt)

C16_AbsentDestAborts == VisitedAbsentDest => Aborted

C16_ConcatIntoAbsent ==
    /\ VisitedAbsentDest
    /\ prev.stmt.op = "FunctionCall" /\ prev.stmt.name = "bitvector_concat"
    /\ Aborted

\* C17: when the first statement of a function is visited the environment
\* holds exactly the parameters of that function whose type is an integer
\* type, each bound to the node of its signature, and nothing of a function
\* processed before; so a name that only another function declares is
\* untracked during the whole walk, whatever the order of the functions.
DeclaredIn(f, i) ==
    \E j \in 1..Len(ast[f].body) :
        ast[f].body[j].op = "TypeDeclaration" /\ ast[f].body[j].name = i

C17_EnvironmentPerFunction ==
    /\ Visiting /\ idx = 1
       => \A i \in Idents :
              locals[i] = IF i \in ast[current_func].params
                             /\ types[<<current_func, ParamSlot[i]>>].int
                          THEN <<current_func, ParamSlot[i]>>
                          ELSE NoNode
    /\ pc = "walk"
       => \A i \in Idents :
              /\ locals[i] # NoNode => locals[i][1] = current_func
              /\ i \notin ast[current_func].params /\ ~DeclaredIn(current_func, i)
                 => get_size(locals, types, i) = None

C17_DeclaredElsewhereUntracked ==
    /\ Visiting /\ idx = 1
    /\ current_func = "g" /\ pending = {"g"}
    /\ DeclaredIn("f", "n")
    /\ Stmt = Copy("x", VId("n"))
    /\ get_size(locals, types, "n") = None
    /\ get_size(locals, types, "x") = Unknown

\* C18: a size written for an identifier that is an integer-typed parameter
\* (and that no earlier TypeDeclaration of the function has bound to a local
\* of the same name) lands in the type node the signature of the function
\* holds: the signature shows the size the statement wrote, also once the run
\* is over and the environment has been cleared or seeded for another
\* function.
SignatureType(f, i) == types[<<f, ParamSlot[i]>>]

VisitedParamDest ==
    /\ prev.valid /\ pc # "panic"
    /\ prev.stmt.dest \in Idents
    /\ prev.stmt.dest \in ast[prev.f].params
    /\ prev.types[<<prev.f, ParamSlot[prev.stmt.dest]>>].int
    /\ \A j \in 1..(prev.i - 1) :
           ~(ast[prev.f].body[j].op = "TypeDeclaration"
             /\ ast[prev.f].body[j].name = prev.stmt.dest)

C18_SignatureShowsSize ==
    VisitedParamDest =>
        LET shown == SignatureType(prev.f, prev.stmt.dest) IN
        /\ shown.int
        /\ shown.size = SizeAfter(prev.stmt.dest)
        /\ prev.stmt.op = "Copy" /\ prev.stmt.val.k = "Bits"
           => shown.size = Static(Len(prev.stmt.val.bits))
        /\ /\ prev.stmt.op = "FunctionCall" /\ prev.stmt.name = "undefined_bitvector"
           /\ SizeBefore(prev.stmt.dest) = Unknown
           => shown.size = Runtime(prev.stmt.args[1].id)
        /\ /\ prev.stmt.op = "FunctionCall" /\ prev.stmt.name = "bitvector_concat"
           => shown.size = Static(SizeBefore(prev.stmt.args[1].id).w
                                  + SizeBefore(prev.stmt.args[2].id).w)

C18_ShownAfterClear ==
    /\ VisitedParamDest
    /\ pc = "done" /\ prev.f = "f" /\ current_func = "g"
    /\ prev.stmt = Copy("x", VBits(<<1, 0>>))
    /\ SizeBefore("x") = Unknown
    /\ locals["x"] # <<"f", ParamSlot["x"]>>
    /\ SignatureType("f", "x") = IntType(Static(2))

\* C19: a call without a destination is never rewritten, does not abort the
\* pass and changes no size, also when its name is one of the five builtins;
\* it is still in place, as it was when the run began, at every later point
\* of the run.
C19_NoDestCallUntouched ==
    /\ /\ prev.valid
       /\ prev.stmt.op = "FunctionCall" /\ prev.stmt.dest = NoDest
       => /\ pc # "panic"
          /\ NowStmt = prev.stmt
          /\ types = prev.types
    /\ \A p \in Positions(snap.ast) :
           /\ StmtAt(snap.ast, p).op = "FunctionCall"
           /\ StmtAt(snap.ast, p).dest = NoDest
           => StmtAt(ast, p) = StmtAt(snap.ast, p)

C19_ZerosWithoutDestKept ==
    /\ pc = "done"
    /\ prev.valid
    /\ prev.stmt = FunctionCall(NoDest, "Zeros", <<VId("n")>>)
    /\ get_assignment(PrevBody, "n") = VInt(2)
    /\ NowStmt = prev.stmt
    /\ types = prev.types

\* C20: a step changes the type of at most one node, and only while a
\* statement is visited: the node bound to the destination identifier of
\* that statement; and it changes at most one statement, the visited one.
\* The sizes of the source and argument identifiers bound to other nodes and
\* all other statements stay as they are.
OneStatementOneNode ==
    /\ \A nd \in Nodes :
           types'[nd] # types[nd]
           => /\ Visiting
              /\ Stmt.dest \in Idents
              /\ nd = locals[Stmt.dest]
    /\ \A p \in Positions(ast) :
           StmtAt(ast', p) # StmtAt(ast, p)
           => /\ Visiting
              /\ p = <<current_func, idx>>
    /\ Positions(ast') = Positions(ast)

C20_OneStatementOneNode == [][OneStatementOneNode]_vars

C20_ConcatChangedDestOnly ==
    /\ VisitedConcat
    /\ prev.stmt.dest \in Idents
    /\ prev.locals[prev.stmt.dest] # prev.locals[prev.stmt.args[1].id]
    /\ prev.locals[prev.stmt.dest] # prev.locals[prev.stmt.args[2].id]
    /\ {nd \in Nodes : types[nd] # prev.types[nd]} = {prev.locals[prev.stmt.dest]}
    /\ NowStmt # prev.stmt
    /\ SizeAfter(prev.stmt.args[1].id) = SizeBefore(prev.stmt.args[1].id)
    /\ SizeAfter(prev.stmt.args[2].id) = SizeBefore(prev.stmt.args[2].id)

====
